---- MODULE Spec2Model ----
(***************************************************************************)
(* Model of the data-driven test layer of the Playwright/Cucumber          *)
(* framework: the DataService singleton (src/utils/dataService.ts), the    *)
(* Cucumber hooks (src/support/hooks.ts), the CustomWorld browser session  *)
(* (src/support/world.ts), the data-driven login steps                     *)
(* (src/steps/loginSteps.ts), the scenario generator                       *)
(* (src/data/generators/scenarioGenerator.ts), the configuration           *)
(* (src/config/config.ts), the Logger (src/utils/logger.ts) and the step   *)
(* definitions the runner matches the phrases of the scenarios against.    *)
(***************************************************************************)
EXTENDS Integers, Sequences, FiniteSets, TLC

VARIABLES
    fs,           \* the file system: resolved path -> file content
    cache,        \* DataService.cache: the own properties of the cache object
    lastCall,     \* the most recent DataService call: arguments and outcome
    config,       \* the resolved configuration (config.BROWSER)
    phase,        \* where the Cucumber run is
    scenario,     \* the number of the scenario that runs (0: none has started)
    status,       \* scenario.result.status of that scenario
    stepsRun,     \* steps of that scenario that have run
    world,        \* the CustomWorld of that scenario
    openBrowsers, \* the launched browsers that were not closed
    setupLoad,    \* how the loadData of BeforeAll ended
    lastStep,     \* the most recent hook, step or CustomWorld call and its outcome
    source,       \* the login data that DataLoader.loadLoginData reads
    outputFile,   \* src/features/generated/loginDDT.feature
    discovered,   \* the generated scenarios the runner has discovered in this run
    genPhase,     \* where a run with the generating BeforeAll is
    lastGen,      \* the most recent generateLoginFeature call and its outcome
    runs,         \* the runs that have ended
    env,          \* process.env
    pending       \* the assertions and waits a step started and did not await

dataVars == <<fs, cache, lastCall>>
runVars == <<config, phase, scenario, status, stepsRun, world, openBrowsers, setupLoad,
            lastStep, pending>>
genVars == <<source, outputFile, discovered, genPhase, lastGen, runs>>
vars == <<fs, cache, lastCall, config, phase, scenario, status, stepsRun, world,
          openBrowsers, setupLoad, lastStep, source, outputFile, discovered, genPhase,
          lastGen, runs, env, pending>>

(***************************************************************************)
(* Bounds of the model.                                                    *)
(***************************************************************************)
MaxRows == 2        \* physical data rows under the header of a generated sheet
MaxScenarios == 2   \* scenarios of a run
MaxSteps == 2       \* steps of a scenario
MaxCalls == 3       \* calls on one CustomWorld by a client of its methods
MaxRuns == 2        \* runs of the suite with the generating BeforeAll

(***************************************************************************)
(* JavaScript values.  A cell value is a pair <<type, text>>, so that the  *)
(* string '1' and the number 1 are different values, as they are for ===.  *)
(***************************************************************************)
Str(s) == <<"string", s>>
Num(s) == <<"number", s>>
Undefined == <<"undefined", "">>
Empty == <<"empty", "">>          \* a cell the worksheet does not hold

StrictEquals(a, b) == a = b

(***************************************************************************)
(* Paths: a sequence of segments, absolute when it starts at the root.     *)
(***************************************************************************)
Cwd == <<"/", "cwd">>

IsAbsolute(p) == Len(p) > 0 /\ p[1] = "/"

Join(base, p) == IF IsAbsolute(p) THEN base \o Tail(p) ELSE base \o p

\* dataService.ts: const EXCEL_FILE_PATH = path.join(process.cwd(), 'test_data.xlsx')
EXCEL_FILE_PATH == Join(Cwd, <<"test_data.xlsx">>)

\* hooks.ts: EXCEL_FILE_NAME = '/test-data/test_data.xlsx', joined to process.cwd()
EXCEL_FILE_NAME == <<"/", "test-data", "test_data.xlsx">>
HOOKS_EXCEL_FILE_PATH == Join(Cwd, EXCEL_FILE_NAME)

\* the paths a caller passes to loadData: the two absolute ones and a relative one
PathArgs == {EXCEL_FILE_PATH, HOOKS_EXCEL_FILE_PATH, <<"test-data", "test_data.xlsx">>}

ResolvePath(filePath) == IF ~IsAbsolute(filePath) THEN Join(Cwd, filePath) ELSE filePath

(***************************************************************************)
(* Worksheets and workbooks.  A worksheet is its header row, the physical  *)
(* rows under it, and whether it holds a cell of a type sheet_to_json does *)
(* not recognize (the library then throws).                                *)
(***************************************************************************)
Header == <<"test_case_id", "username", "password", "expected_result">>

ValidRow == <<Str("TC-LOGIN-001"), Str("admin"), Str("password"), Str("Success")>>

\* the same test_case_id again, with other cells
InvalidRow ==
    <<Str("TC-LOGIN-001"), Str("admin"), Str("wrongpassword"),
      Str("Error: Invalid credentials")>>

\* a numeric test_case_id, the other cells not filled in
NumericRow == <<Num("1"), Empty, Empty, Empty>>

BlankRow == <<Empty, Empty, Empty, Empty>>

PhysicalRows == {ValidRow, InvalidRow, NumericRow, BlankRow}

RECURSIVE SeqsUpTo(_, _)
SeqsUpTo(S, n) ==
    IF n = 0 THEN {<<>>}
    ELSE LET shorter == SeqsUpTo(S, n - 1)
         IN  shorter \cup {Append(s, x) : s \in {t \in shorter : Len(t) = n - 1}, x \in S}

Sheet(rows) == [header |-> Header, rows |-> rows, unrecognizedType |-> FALSE]

BadSheet == [header |-> Header, rows |-> <<>>, unrecognizedType |-> TRUE]

LoginSheets == {Sheet(rows) : rows \in SeqsUpTo(PhysicalRows, MaxRows)}

TodoSheet == Sheet(<<<<Str("1"), Str("admin"), Empty, Empty>>, NumericRow>>)

ExtraSheet == Sheet(<<<<Str("TC-LOGIN-001"), Empty, Empty, Empty>>>>)

Workbook(names, sheets) == [SheetNames |-> names, Sheets |-> sheets]

\* a Login sheet with two rows of the same test_case_id
DupLoginSheet == Sheet(<<ValidRow, InvalidRow>>)

\* the workbooks the data file of the hooks may be: any Login sheet alone, or a
\* Login sheet followed by a Todo sheet that converts or that does not
HooksWorkbooks ==
    {Workbook(<<"Login">>, [n \in {"Login"} |-> l]) : l \in LoginSheets}
    \cup {Workbook(<<"Login", "Todo">>, [n \in {"Login", "Todo"} |->
                IF n = "Login" THEN DupLoginSheet ELSE t]) : t \in {TodoSheet, BadSheet}}

\* the workbook the default data file may be
DefaultWorkbook ==
    Workbook(<<"Extra", "Login">>, [n \in {"Extra", "Login"} |->
        IF n = "Extra" THEN ExtraSheet ELSE Sheet(<<InvalidRow>>)])

NoWorkbook == Workbook(<<>>, <<>>)

File(kind, wb) == [kind |-> kind, wb |-> wb]

Missing == File("missing", NoWorkbook)          \* no file at the path
Unreadable == File("unreadable", NoWorkbook)    \* the file cannot be read
Garbage == File("garbage", NoWorkbook)          \* not a tabular format

HooksFiles == {Missing, Unreadable, Garbage} \cup {File("workbook", wb) : wb \in HooksWorkbooks}

DefaultFiles == {Missing, File("workbook", DefaultWorkbook)}

ReadPath(fsys, p) == IF p \in DOMAIN fsys THEN fsys[p] ELSE Missing

(***************************************************************************)
(* XLSX.utils.sheet_to_json: one record per physical row under the header, *)
(* keyed by the header's column names, holding the cells the row has; a    *)
(* row with no cell gives no record.                                       *)
(***************************************************************************)
IsBlankRow(r) == \A j \in 1..Len(r) : r[j] = Empty

RowRecord(header, r) ==
    [c \in {header[j] : j \in {k \in 1..Len(header) : r[k] # Empty}} |->
        r[CHOOSE j \in 1..Len(header) : header[j] = c]]

RECURSIVE ConvertRows(_, _, _)
ConvertRows(header, rows, i) ==
    IF i > Len(rows) THEN <<>>
    ELSE (IF IsBlankRow(rows[i]) THEN <<>> ELSE <<RowRecord(header, rows[i])>>)
         \o ConvertRows(header, rows, i + 1)

SheetToJson(ws) == ConvertRows(ws.header, ws.rows, 1)

(***************************************************************************)
(* Logger calls and thrown errors.                                         *)
(***************************************************************************)
LogEntry(level, msg, sheet, n) == [level |-> level, msg |-> msg, sheet |-> sheet, n |-> n]

Log(level, msg) == LogEntry(level, msg, "", 0)

NoError == [name |-> "", message |-> "", cause |-> ""]

\* the caught error thrown again as it is, without the DataService message
RethrownError(cause) == [name |-> "Error", message |-> "", cause |-> cause]

\* new Error(`DataService failed to load data: ${error.message}`)
LoadError(cause) ==
    [name |-> "Error", message |-> "DataService failed to load data: ", cause |-> cause]

\* calling .find on a value that is not an array
FindTypeError == [name |-> "TypeError", message |-> "data.find is not a function", cause |-> ""]

(***************************************************************************)
(* Results of the DataService calls.                                       *)
(***************************************************************************)
NoRow == <<>>

Result(kind, rows, row) == [kind |-> kind, rows |-> rows, row |-> row]

VoidResult == Result("void", <<>>, NoRow)
ArrayResult(rows) == Result("array", rows, NoRow)
FunctionResult == Result("function", <<>>, NoRow)     \* a member of Object.prototype
RowResult(row) == Result("row", <<>>, row)
UndefinedResult == Result("undefined", <<>>, NoRow)

Outcome(c, threw, error, result, logs, converted) ==
    [cache |-> c, threw |-> threw, error |-> error, result |-> result,
     logs |-> logs, converted |-> converted]

(***************************************************************************)
(* The cache object: `private cache: DataCache = {}`.  Its own properties  *)
(* are the sheets stored in it; a property it does not own is looked up in *)
(* Object.prototype.                                                       *)
(***************************************************************************)
ObjectPrototypeKeys == {"constructor", "toString", "valueOf", "hasOwnProperty"}

ObjectKeys(c) == DOMAIN c

\* the rows added to the rows the cache already holds for the sheet
CacheSetAppending(c, sheetName, data) ==
    [n \in DOMAIN c \cup {sheetName} |->
        IF n # sheetName THEN c[n]
        ELSE IF n \in DOMAIN c THEN c[n] \o data ELSE data]

\* this.cache[sheetName] = data
CacheSet(c, sheetName, data) ==
    [n \in DOMAIN c \cup {sheetName} |-> IF n = sheetName THEN data ELSE c[n]]

\* this.cache[sheetName]
CacheGet(c, sheetName) ==
    IF sheetName \in DOMAIN c THEN ArrayResult(c[sheetName])
    ELSE IF sheetName \in ObjectPrototypeKeys THEN FunctionResult
    ELSE UndefinedResult

(***************************************************************************)
(* XLSX.readFile: throws for a path that holds no readable workbook.       *)
(***************************************************************************)
ReadFileError(file) ==
    CASE file.kind = "missing" -> "ENOENT"
      [] file.kind = "unreadable" -> "EACCES"
      [] file.kind = "garbage" -> "Unsupported file"
      [] OTHER -> ""

(***************************************************************************)
(* DataService.loadData                                                    *)
(***************************************************************************)
\* workbook.SheetNames.forEach(...): the sheets from the i-th on, in order;
\* a throw inside the callback leaves the loop with the cache as it then is.
RECURSIVE LoadSheets(_, _, _, _)

\* the callback of forEach for the i-th sheet, then the sheets after it
LoadSheet(c, wb, i, logs, sheetName, data) ==
    LoadSheets(CacheSet(c, sheetName, data), wb, i + 1,
               Append(logs, LogEntry("INFO", "Successfully loaded rows from sheet",
                                     sheetName, Len(data))))

LoadSheets(c, wb, i, logs) ==
    IF i > Len(wb.SheetNames)
    THEN Outcome(c, FALSE, NoError, VoidResult, logs, i - 1)
    ELSE IF wb.Sheets[wb.SheetNames[i]].unrecognizedType
         THEN Outcome(c, TRUE, LoadError("unrecognized type"), VoidResult, logs, i - 1)
         ELSE LoadSheet(c, wb, i, logs, wb.SheetNames[i],
                        SheetToJson(wb.Sheets[wb.SheetNames[i]]))

\* the end of loadData, given how the loop over the sheets ended
loadDataEnd(r) ==
    IF r.threw
    THEN Outcome(r.cache, TRUE, r.error, VoidResult,
                 Append(r.logs, Log("ERROR", "Failed to load Excel data")), r.converted)
    ELSE Outcome(r.cache, FALSE, NoError, VoidResult,
                 Append(r.logs, Log("INFO", "All data sheets loaded successfully.")),
                 r.converted)

\* loadData from XLSX.readFile on, given the file at the resolved path
loadDataFrom(c, file, logs) ==
    IF file.kind # "workbook"
    THEN loadDataEnd(Outcome(c, TRUE, LoadError(ReadFileError(file)), VoidResult, logs, 0))
    ELSE loadDataEnd(LoadSheets(c, file.wb, 1, logs))

loadData(c, fsys, filePath) ==
    loadDataFrom(c, ReadPath(fsys, ResolvePath(filePath)),
                 <<Log("INFO", "Attempting to load data from")>>)

(***************************************************************************)
(* DataService.getData                                                     *)
(***************************************************************************)
\* getData from `if (!data)` on, given what this.cache[sheetName] is
getDataFound(c, logs, sheetName, data) ==
    IF data.kind = "undefined"
    THEN Outcome(c, FALSE, NoError, ArrayResult(<<>>),
                 Append(logs, LogEntry("ERROR", "Sheet not found in Excel file.",
                                       sheetName, 0)),
                 0)
    ELSE Outcome(c, FALSE, NoError, data, logs, 0)

\* getData after the loadData() it calls for an empty cache; the error of the
\* load leaves getData
getDataLoaded(l, sheetName) ==
    IF l.threw
    THEN [l EXCEPT !.logs =
             <<Log("WARN", "Data cache is empty. Attempting to load data now.")>> \o @]
    ELSE getDataFound(l.cache,
             <<Log("WARN", "Data cache is empty. Attempting to load data now.")>> \o l.logs,
             sheetName, CacheGet(l.cache, sheetName))

\* getData loading whenever the cache lacks the sheet asked for
getDataOnMiss(c, fsys, sheetName) ==
    IF sheetName \notin ObjectKeys(c)
    THEN getDataLoaded(loadData(c, fsys, EXCEL_FILE_PATH), sheetName)
    ELSE getDataFound(c, <<>>, sheetName, CacheGet(c, sheetName))

getData(c, fsys, sheetName) ==
    IF Cardinality(ObjectKeys(c)) = 0
    THEN getDataLoaded(loadData(c, fsys, EXCEL_FILE_PATH), sheetName)
    ELSE getDataFound(c, <<>>, sheetName, CacheGet(c, sheetName))

(***************************************************************************)
(* DataService.getSingleData                                               *)
(***************************************************************************)
\* row[key]
Cell(row, key) == IF key \in DOMAIN row THEN row[key] ELSE Undefined

\* the element at the greatest index from i on that matches (findLast)
FindLast(data, key, value, i) ==
    LET matches == {j \in i..Len(data) : StrictEquals(Cell(data[j], key), value)}
    IN  IF matches = {} THEN UndefinedResult
        ELSE RowResult(data[CHOOSE j \in matches : \A k \in matches : k <= j])

\* Array.prototype.find: the element at the least index from i on that matches
RECURSIVE Find(_, _, _, _)
Find(data, key, value, i) ==
    IF i > Len(data) THEN UndefinedResult
    ELSE IF StrictEquals(Cell(data[i], key), value) THEN RowResult(data[i])
    ELSE Find(data, key, value, i + 1)

\* getSingleData after its getData call
getSingleDataOf(g, key, value) ==
    IF g.threw THEN g
    ELSE IF g.result.kind # "array"
         THEN Outcome(g.cache, TRUE, FindTypeError, VoidResult, g.logs, 0)
         ELSE Outcome(g.cache, FALSE, NoError, Find(g.result.rows, key, value, 1),
                      g.logs, 0)

getSingleData(c, fsys, sheetName, key, value) ==
    getSingleDataOf(getData(c, fsys, sheetName), key, value)

(***************************************************************************)
(* The DataService singleton under the calls of its clients.               *)
(***************************************************************************)
SheetArgs == {"Login", "Extra", "Missing", "constructor"}

KeyArgs == {"test_case_id", "username"}

ValueArgs == {Str("TC-LOGIN-001"), Str("1"), Num("1"), Str("admin")}

Call(op, path, sheet, key, value, before, out) ==
    [op |-> op, path |-> path, sheet |-> sheet, key |-> key, value |-> value,
     before |-> before, out |-> out]

NoCall ==
    Call("none", <<>>, "", "", Undefined, <<>>,
         Outcome(<<>>, FALSE, NoError, VoidResult, <<>>, 0))

\* the world before the runner has constructed one
NoWorld ==
    [browser |-> 0, context |-> FALSE, page |-> FALSE, expectedResult |-> Undefined,
     closeBrowserCalls |-> 0, closes |-> 0, screenshot |-> "none"]

\* the session of the world is open: its browser was launched and not closed
SessionOpen(w, open) == w.browser # 0 /\ w.browser \in open

\* a hook, a step or a call on the world, with the world it found, whether the
\* session of that world was open, and its outcome
Step(op, arg, before, o) ==
    [op |-> op, arg |-> arg, before |-> before,
     sessionOpen |-> SessionOpen(before, openBrowsers),
     threw |-> o.threw, error |-> o.error, result |-> o.result]

NoStep ==
    [op |-> "none", arg |-> "", before |-> NoWorld, sessionOpen |-> FALSE,
     threw |-> FALSE, error |-> NoError, result |-> "void"]

\* the output path when its directory exists and the file does not; a file is told
\* by whether its directory and itself exist, and by its lines
NoFile == [dir |-> TRUE, exists |-> FALSE, content |-> <<>>]

NoGen ==
    [n |-> 0, source |-> [available |-> FALSE, rows |-> <<>>], before |-> NoFile,
     threw |-> FALSE, error |-> NoError]

\* no generator and no process environment take part
GenIdle ==
    /\ source = [available |-> FALSE, rows |-> <<>>]
    /\ outputFile = NoFile
    /\ discovered = <<>>
    /\ genPhase = "idle"
    /\ lastGen = NoGen
    /\ runs = 0
    /\ env = <<>>

RunInit ==
    /\ lastStep = NoStep
    /\ pending = {}
    /\ phase = "boot"
    /\ scenario = 0
    /\ status = "UNKNOWN"
    /\ stepsRun = 0
    /\ world = NoWorld
    /\ openBrowsers = {}
    /\ setupLoad = "none"

\* export const dataService = new DataService(): the cache starts as {}
Init ==
    /\ fs \in {[p \in {EXCEL_FILE_PATH, HOOKS_EXCEL_FILE_PATH} |->
                   IF p = EXCEL_FILE_PATH THEN d ELSE h] :
               d \in DefaultFiles, h \in HooksFiles}
    /\ cache = <<>>
    /\ lastCall = NoCall
    /\ config = [BROWSER |-> "chromium"]
    /\ RunInit
    /\ GenIdle

\* a call of the DataService and its outcome: the cache it leaves, the call recorded
Called(op, path, sheet, key, value, out) ==
    /\ cache' = out.cache
    /\ lastCall' = Call(op, path, sheet, key, value, cache, out)
    /\ UNCHANGED fs

LoadData(filePath) ==
    /\ Called("loadData", filePath, "", "", Undefined, loadData(cache, fs, filePath))
    /\ UNCHANGED <<genVars, env, runVars>>

GetData(sheetName) ==
    /\ Called("getData", <<>>, sheetName, "", Undefined, getData(cache, fs, sheetName))
    /\ UNCHANGED <<genVars, env, runVars>>

GetSingleData(sheetName, key, value) ==
    /\ Called("getSingleData", <<>>, sheetName, key, value,
              getSingleData(cache, fs, sheetName, key, value))
    /\ UNCHANGED <<genVars, env, runVars>>

Next ==
    \/ \E filePath \in PathArgs : LoadData(filePath)
    \/ \E sheetName \in SheetArgs : GetData(sheetName)
    \/ \E sheetName \in SheetArgs, key \in KeyArgs, value \in ValueArgs :
          GetSingleData(sheetName, key, value)

Spec == Init /\ [][Next]_vars

(***************************************************************************)
(* CustomWorld: the browser session of one scenario.                       *)
(***************************************************************************)
SupportedBrowsers == {"chromium", "firefox", "webkit"}

\* what the driver may fail at while initBrowser runs
InitFaults == {"none", "launch", "newContext", "newPage"}

\* the errors of the session
Thrown(message) == [name |-> "Error", message |-> message, cause |-> ""]
TypeError(message) == [name |-> "TypeError", message |-> message, cause |-> ""]
UnsupportedBrowser == Thrown("Unsupported browser type: ")
LaunchNotAFunction == TypeError("browserType.launch is not a function")
DriverError(op) == [name |-> "Error", message |-> "driver", cause |-> op]
ScreenshotOfUndefined == TypeError("Cannot read properties of undefined (reading 'screenshot')")

\* how a call on the world ends: the world it leaves, the error it throws, whether
\* it launched a browser, what it returns
WorldOutcome(w, error, launched, result) ==
    [world |-> w, threw |-> error # NoError, error |-> error, launched |-> launched,
     result |-> result]

\* { chromium, firefox, webkit }[name]: the table is a plain object, so that a name
\* Object.prototype defines yields a function that is no browser type
BrowserType(name) ==
    IF name \in SupportedBrowsers THEN "browserType"
    ELSE IF name \in ObjectPrototypeKeys THEN "function"
    ELSE "undefined"

\* initBrowser without the test of the browser type: whatever the name, a browser
\* is launched
initBrowserUnchecked(w, cfg, id, fault) ==
    WorldOutcome([w EXCEPT !.browser = id, !.context = TRUE, !.page = TRUE],
                 NoError, TRUE, "void")

\* CustomWorld.initBrowser; id names the browser that launch() starts
initBrowser(w, cfg, id, fault) ==
    IF BrowserType(cfg.BROWSER) = "undefined"
    THEN WorldOutcome(w, UnsupportedBrowser, FALSE, "void")
    ELSE IF BrowserType(cfg.BROWSER) = "function"
    THEN WorldOutcome(w, LaunchNotAFunction, FALSE, "void")
    ELSE IF fault = "launch" THEN WorldOutcome(w, DriverError("launch"), FALSE, "void")
    ELSE IF fault = "newContext"
         THEN WorldOutcome([w EXCEPT !.browser = id], DriverError("newContext"), TRUE, "void")
    ELSE IF fault = "newPage"
         THEN WorldOutcome([w EXCEPT !.browser = id, !.context = TRUE],
                           DriverError("newPage"), TRUE, "void")
    ELSE WorldOutcome([w EXCEPT !.browser = id, !.context = TRUE, !.page = TRUE],
                      NoError, TRUE, "void")

\* CustomWorld.closeBrowser: closes this.browser when it is set
closeBrowser(w) ==
    IF w.browser # 0
    THEN [w EXCEPT !.closeBrowserCalls = @ + 1, !.closes = @ + 1]
    ELSE [w EXCEPT !.closeBrowserCalls = @ + 1]

\* CustomWorld.takeScreenshot: the buffer of this.page.screenshot(...) when the page
\* is set, undefined otherwise
takeScreenshot(w, screenshotFails) ==
    IF w.page
    THEN IF screenshotFails THEN WorldOutcome(w, DriverError("screenshot"), FALSE, "void")
         ELSE WorldOutcome(w, NoError, FALSE, "buffer")
    ELSE WorldOutcome(w, NoError, FALSE, "undefined")

\* ScreenshotManager.capture: world.page.screenshot(...), then world.attach(...);
\* reading .screenshot of a page that is not set is a TypeError
capture(w, screenshotFails) ==
    IF ~w.page
    THEN WorldOutcome([w EXCEPT !.screenshot = "failed"], ScreenshotOfUndefined, FALSE, "void")
    ELSE IF screenshotFails
    THEN WorldOutcome([w EXCEPT !.screenshot = "failed"], DriverError("screenshot"), FALSE,
                      "void")
    ELSE WorldOutcome([w EXCEPT !.screenshot = "attached"], NoError, FALSE, "filePath")

(***************************************************************************)
(* The hooks and the steps, as the Cucumber runner calls them.             *)
(***************************************************************************)
\* BeforeAll after its loadData call: the error caught and logged, not thrown again
beforeAllLoaded(l) ==
    [load |-> l, threw |-> FALSE,
     logs |-> (IF l.threw
               THEN Append(l.logs, Log("ERROR",
                        "FATAL: Could not load test data. Test execution aborted."))
               ELSE l.logs)
              \o <<Log("INFO", "Starting test execution..."),
                   Log("INFO", "Test environment initialized")>>]

beforeAll(c, fsys) == beforeAllLoaded(loadData(c, fsys, HOOKS_EXCEL_FILE_PATH))

\* the runner after BeforeAll: a BeforeAll hook that throws ends the run before
\* any scenario
BeforeAllDone(b) ==
    /\ Called("loadData", HOOKS_EXCEL_FILE_PATH, "", "", Undefined, b.load)
    /\ setupLoad' = IF b.load.threw THEN "failed" ELSE "loaded"
    /\ phase' = IF b.threw THEN "aborted" ELSE "ready"

BeforeAll ==
    /\ phase = "boot"
    /\ BeforeAllDone(beforeAll(cache, fs))
    /\ UNCHANGED <<genVars, env, pending, config, scenario, status, stepsRun, world, openBrowsers, lastStep>>

\* the runner constructs the world of the next scenario
StartScenario ==
    /\ phase = "ready"
    /\ scenario < MaxScenarios
    /\ scenario' = scenario + 1
    /\ world' = NoWorld
    /\ status' = "UNKNOWN"
    /\ stepsRun' = 0
    /\ phase' = "before"
    /\ UNCHANGED <<genVars, env, pending, dataVars, config, openBrowsers, setupLoad, lastStep>>

\* the runner after Before: when the hook throws the scenario has failed and its
\* steps are skipped
BeforeDone(o) ==
    /\ world' = o.world
    /\ openBrowsers' = IF o.launched THEN openBrowsers \cup {scenario} ELSE openBrowsers
    /\ status' = IF o.threw THEN "FAILED" ELSE status
    /\ phase' = IF o.threw THEN "after" ELSE "steps"

BeforeOf(fault, o) ==
    /\ BeforeDone(o)
    /\ lastStep' = Step("Before", fault, world, o)

\* Before: initBrowser
Before(fault) ==
    /\ phase = "before"
    /\ BeforeOf(fault, initBrowser(world, config, scenario, fault))
    /\ UNCHANGED <<genVars, env, pending, dataVars, config, scenario, stepsRun, setupLoad>>

\* the test case IDs the feature files pass to the data-driven login step
TestCaseIds ==
    {Str("TC-LOGIN-001"), Str("TC-LOGIN-002"), Str("TC-LOGIN-003"), Str("TC-LOGIN-004"),
     Str("TC-LOGIN-005"), Str("TC-LOGIN-006"), Str("TC-LOGIN-404")}

\* the Login sheet of a run: the rows of the scenario outline, with the shapes of
\* expected_result a sheet can hold
RunLoginSheet ==
    Sheet(<<ValidRow,
            <<Str("TC-LOGIN-002"), Str("admin"), Str("wrongpassword"),
              Str("Error: Invalid credentials")>>,
            <<Str("TC-LOGIN-003"), Str("nouser"), Str("password"),
              Str("Error:Invalid credentials")>>,
            <<Str("TC-LOGIN-004"), Empty, Empty, Str("Failure")>>,
            <<Str("TC-LOGIN-005"), Str("admin"), Str("password"), Empty>>,
            <<Str("TC-LOGIN-006"), Str("admin"), Str("password"), Num("1")>>>>)

TestDataNotFound == Thrown("Test data not found for test case ID: ")

\* the data-driven login step once the row is found: the expected result stored,
\* then the credentials entered; entered tells whether enterUsername and
\* enterPassword succeed
dataLoginStepFound(w, row, entered) ==
    WorldOutcome([w EXCEPT !.expectedResult = Cell(row, "expected_result")],
                 IF entered THEN NoError ELSE DriverError("fill"), FALSE,
                 IF entered THEN "entered" ELSE "none")

\* the data-driven login step passing in silence when the lookup returns no row
dataLoginStepSilent(w, g, entered) ==
    IF g.threw THEN WorldOutcome(w, g.error, FALSE, "none")
    ELSE IF g.result.kind # "row" THEN WorldOutcome(w, NoError, FALSE, "none")
    ELSE dataLoginStepFound(w, g.result.row, entered)

\* the data-driven login step after its getSingleData call
dataLoginStepOf(w, g, entered) ==
    IF g.threw THEN WorldOutcome(w, g.error, FALSE, "none")
    ELSE IF g.result.kind # "row" THEN WorldOutcome(w, TestDataNotFound, FALSE, "none")
    ELSE dataLoginStepFound(w, g.result.row, entered)

\* the runner after a step: a step that throws fails the scenario and ends its steps
StepDone(o) ==
    /\ world' = o.world
    /\ stepsRun' = stepsRun + 1
    /\ status' = IF o.threw THEN "FAILED" ELSE status
    /\ phase' = IF o.threw THEN "after" ELSE "steps"

StepOf(op, arg, o) ==
    /\ StepDone(o)
    /\ lastStep' = Step(op, arg, world, o)

DataLoginStepOf(testCaseId, g, entered) ==
    /\ Called("getSingleData", <<>>, "Login", "test_case_id", testCaseId, g)
    /\ StepOf("dataLogin", testCaseId, dataLoginStepOf(world, g, entered))

\* When('I login with data from test case ID {string}')
DataLoginStep(testCaseId, entered) ==
    /\ phase = "steps"
    /\ stepsRun < MaxSteps
    /\ DataLoginStepOf(testCaseId,
           getSingleData(cache, fs, "Login", "test_case_id", testCaseId), entered)
    /\ UNCHANGED <<genVars, env, pending, config, scenario, openBrowsers, setupLoad>>

(***************************************************************************)
(* Strings as the outcome step reads them: a text is the sequence of the   *)
(* pieces the step can tell apart.                                         *)
(***************************************************************************)
Text(s) ==
    CASE s = "Success" -> <<"Success">>
      [] s = "Error: Invalid credentials" -> <<"Error:", " ", "Invalid credentials">>
      [] s = "Error:Invalid credentials" -> <<"Error:", "Invalid credentials">>
      [] s = "Failure" -> <<"Failure">>
      [] s = "/login" -> <<"/login">>
      [] s = "Error: " -> <<"Error:", " ">>
      [] s = "Error:" -> <<"Error:">>
      [] s = "" -> <<>>
      [] OTHER -> <<s>>

\* the places of text at which pattern occurs
Occurrences(text, pattern) ==
    {i \in 1..(Len(text) - Len(pattern) + 1) :
        SubSeq(text, i, i + Len(pattern) - 1) = pattern}

\* String.prototype.startsWith
StartsWith(text, prefix) == 1 \in Occurrences(text, prefix)

\* String.prototype.includes, which toContain uses for strings
Contains(text, pattern) == Occurrences(text, pattern) # {}

\* String.prototype.replace with a string pattern: the first occurrence replaced
Replace(text, pattern, by) ==
    IF Occurrences(text, pattern) = {} THEN text
    ELSE LET i == CHOOSE j \in Occurrences(text, pattern) :
                      \A k \in Occurrences(text, pattern) : j <= k
         IN  SubSeq(text, 1, i - 1) \o by \o SubSeq(text, i + Len(pattern), Len(text))

\* JavaScript truthiness of a cell value
Truthy(v) == v # Undefined /\ v # Str("") /\ v # Num("0")

(***************************************************************************)
(* Then('the login result should match the expected outcome').  The page   *)
(* is what the browser shows when the step runs: its URL, the text of the *)
(* todos header when there is one, the error message when one is visible. *)
(***************************************************************************)
LoginUrl == <<"http://localhost:5173", "/login">>
TodosUrl == <<"http://localhost:5173", "/todos">>
Pages ==
    [url : {LoginUrl, TodosUrl}, header : {"My Tasks", "absent"},
     errorVisible : {FALSE}, errorText : {<<>>}]
    \cup [url : {LoginUrl, TodosUrl}, header : {"absent"},
          errorVisible : {TRUE},
          errorText : {Text("Invalid credentials"), Text("Error:Invalid credentials")}]

ExpectedResultNotSet == Thrown("Expected result not set in test data.")
StartsWithNotAFunction == TypeError("expectedResult.startsWith is not a function")
UnknownFormat == Thrown("Unknown expected result format: ")
AssertionError(matcher) == [name |-> "AssertionError", message |-> matcher, cause |-> ""]

\* the branch of an expected result that begins with 'Error:'
errorBranch(w, page, expectedErrorMessage) ==
    IF ~page.errorVisible THEN WorldOutcome(w, AssertionError("toBeVisible"), FALSE, "error")
    ELSE IF ~Contains(page.errorText, expectedErrorMessage)
    THEN WorldOutcome(w, AssertionError("toContain message"), FALSE, "error")
    ELSE IF ~Contains(page.url, Text("/login"))
    THEN WorldOutcome(w, AssertionError("toContain /login"), FALSE, "error")
    ELSE WorldOutcome(w, NoError, FALSE, "error")

\* the branches of a string; in the branch of 'Success' the expect(...).toHaveText
\* is not awaited, and the step returns whatever the page shows
outcomeBranch(w, page, expected) ==
    IF StartsWith(expected, Text("Success")) THEN WorldOutcome(w, NoError, FALSE, "success")
    ELSE IF StartsWith(expected, Text("Error:"))
    THEN errorBranch(w, page, Replace(expected, Text("Error: "), Text("")))
    ELSE WorldOutcome(w, UnknownFormat, FALSE, "none")

\* the outcome step; its result tells the branch it took
outcomeStep(w, page) ==
    IF ~Truthy(w.expectedResult) THEN WorldOutcome(w, ExpectedResultNotSet, FALSE, "none")
    ELSE IF w.expectedResult[1] # "string"
    THEN WorldOutcome(w, StartsWithNotAFunction, FALSE, "none")
    ELSE outcomeBranch(w, page, Text(w.expectedResult[2]))

\* the outcome step; the toHaveText of the branch of 'Success', whose promise
\* nothing awaits, is left running when the step returns
OutcomeStep(page) ==
    /\ phase = "steps"
    /\ stepsRun < MaxSteps
    /\ StepOf("outcome", page, outcomeStep(world, page))
    /\ pending' = IF outcomeStep(world, page).result = "success"
                   THEN pending \cup {"toHaveText"}
                   ELSE pending
    /\ UNCHANGED <<genVars, env, dataVars, config, scenario, openBrowsers, setupLoad>>

\* a floating assertion settles, by its match or by its timeout: nothing receives
\* its result
Settle ==
    /\ pending # {}
    /\ pending' = {}
    /\ UNCHANGED <<genVars, env, dataVars, config, phase, scenario, status, stepsRun, world,
                   openBrowsers, setupLoad, lastStep>>

\* how a step that only drives the browser may end
StepResults == {"passed", "assertion", "exception", "timeout"}

\* any other step definition: it reads and writes neither the cache nor the session
BrowserStep(result) ==
    /\ phase = "steps"
    /\ stepsRun < MaxSteps
    /\ StepOf("browser", result,
              WorldOutcome(world, IF result = "passed" THEN NoError ELSE Thrown(result),
                           FALSE, "void"))
    /\ UNCHANGED <<genVars, env, pending, dataVars, config, scenario, openBrowsers, setupLoad>>

\* the last step of the scenario has passed
EndSteps ==
    /\ phase = "steps"
    /\ status' = "PASSED"
    /\ phase' = "after"
    /\ UNCHANGED <<genVars, env, pending, dataVars, config, scenario, stepsRun, world, openBrowsers, setupLoad,
                   lastStep>>

\* After from closeBrowser on, given how the screenshot ended
afterCaptured(shot) ==
    IF shot.threw THEN shot
    ELSE WorldOutcome(closeBrowser(shot.world), NoError, FALSE, "void")

\* After: the screenshot of a failed scenario, then closeBrowser
after(w, scenarioStatus, screenshotFails) ==
    IF scenarioStatus = "FAILED" THEN afterCaptured(capture(w, screenshotFails))
    ELSE afterCaptured(WorldOutcome(w, NoError, FALSE, "void"))

\* the runner after After: a hook that throws fails the scenario
AfterDone(o) ==
    /\ world' = o.world
    /\ openBrowsers' = IF o.world.closes > world.closes
                       THEN openBrowsers \ {world.browser}
                       ELSE openBrowsers
    /\ pending' = IF o.world.closes > world.closes THEN {} ELSE pending
    /\ status' = IF o.threw THEN "FAILED" ELSE status
    /\ phase' = "ready"

AfterOf(screenshotFails, o) ==
    /\ AfterDone(o)
    /\ lastStep' = Step("After", screenshotFails, world, o)

After(screenshotFails) ==
    /\ phase = "after"
    /\ AfterOf(screenshotFails, after(world, status, screenshotFails))
    /\ UNCHANGED <<genVars, env, dataVars, config, scenario, stepsRun, setupLoad>>

AfterAll ==
    /\ phase = "ready"
    /\ phase' = "done"
    /\ UNCHANGED <<genVars, env, pending, dataVars, config, scenario, status, stepsRun, world, openBrowsers,
                   setupLoad, lastStep>>

\* the data files of a run
RunHooksFiles ==
    {Missing, Garbage, File("workbook", Workbook(<<"Login">>, [n \in {"Login"} |-> RunLoginSheet]))}
    \cup {File("workbook", Workbook(<<"Login", "Todo">>, [n \in {"Login", "Todo"} |->
                IF n = "Login" THEN RunLoginSheet ELSE BadSheet]))}

RunSpecInit ==
    /\ fs \in {[p \in {EXCEL_FILE_PATH, HOOKS_EXCEL_FILE_PATH} |->
                   IF p = EXCEL_FILE_PATH THEN d ELSE h] :
               d \in DefaultFiles, h \in RunHooksFiles}
    /\ cache = <<>>
    /\ lastCall = NoCall
    /\ config \in {[BROWSER |-> b, SCREENSHOT_ON_FAIL |-> shot] :
                      b \in {"chromium", "edge"}, shot \in BOOLEAN}
    /\ RunInit
    /\ GenIdle

RunNext ==
    \/ BeforeAll
    \/ StartScenario
    \/ \E fault \in InitFaults : Before(fault)
    \/ \E testCaseId \in TestCaseIds, entered \in BOOLEAN : DataLoginStep(testCaseId, entered)
    \/ \E page \in Pages : OutcomeStep(page)
    \/ Settle
    \/ \E result \in StepResults : BrowserStep(result)
    \/ EndSteps
    \/ \E screenshotFails \in BOOLEAN : After(screenshotFails)
    \/ AfterAll

RunSpec == RunSpecInit /\ [][RunNext]_vars

(***************************************************************************)
(* One CustomWorld under the calls of a client of its methods, and of      *)
(* ScreenshotManager.capture; stepsRun counts the calls.                    *)
(***************************************************************************)
BrowserNames == {"chromium", "firefox", "webkit", "edge", "constructor"}

WorldCalled(op, arg, o) ==
    /\ world' = o.world
    /\ lastStep' = Step(op, arg, world, o)
    /\ stepsRun' = stepsRun + 1
    /\ openBrowsers' = IF o.launched THEN openBrowsers \cup {o.world.browser}
                       ELSE IF o.world.closes > world.closes
                       THEN openBrowsers \ {world.browser}
                       ELSE openBrowsers

InitBrowser(fault) ==
    /\ stepsRun < MaxCalls
    /\ WorldCalled("initBrowser", fault, initBrowser(world, config, stepsRun + 1, fault))
    /\ UNCHANGED <<genVars, env, pending, dataVars, config, phase, scenario, status, setupLoad>>

CloseBrowser ==
    /\ stepsRun < MaxCalls
    /\ WorldCalled("closeBrowser", "", WorldOutcome(closeBrowser(world), NoError, FALSE, "void"))
    /\ UNCHANGED <<genVars, env, pending, dataVars, config, phase, scenario, status, setupLoad>>

\* the screenshot of a page whose browser was closed fails
TakeScreenshot(screenshotFails) ==
    /\ stepsRun < MaxCalls
    /\ WorldCalled("takeScreenshot", screenshotFails,
           takeScreenshot(world, screenshotFails \/ ~SessionOpen(world, openBrowsers)))
    /\ UNCHANGED <<genVars, env, pending, dataVars, config, phase, scenario, status, setupLoad>>

Capture(screenshotFails) ==
    /\ stepsRun < MaxCalls
    /\ WorldCalled("capture", screenshotFails,
           capture(world, screenshotFails \/ ~SessionOpen(world, openBrowsers)))
    /\ UNCHANGED <<genVars, env, pending, dataVars, config, phase, scenario, status, setupLoad>>

WorldSpecInit ==
    /\ fs = [p \in {EXCEL_FILE_PATH, HOOKS_EXCEL_FILE_PATH} |-> Missing]
    /\ cache = <<>>
    /\ lastCall = NoCall
    /\ config \in {[BROWSER |-> b] : b \in BrowserNames}
    /\ RunInit
    /\ GenIdle

WorldNext ==
    \/ \E fault \in InitFaults : InitBrowser(fault)
    \/ CloseBrowser
    \/ \E screenshotFails \in BOOLEAN : TakeScreenshot(screenshotFails)
    \/ \E screenshotFails \in BOOLEAN : Capture(screenshotFails)

WorldSpec == WorldSpecInit /\ [][WorldNext]_vars

(***************************************************************************)
(* The scenario generator (src/data/generators/scenarioGenerator.ts) and   *)
(* the runs of the suite whose BeforeAll calls it.                         *)
(***************************************************************************)
\* `${value}` in a template literal
TemplateString(v) == IF v = Undefined THEN "undefined" ELSE v[2]

\* a line of the feature file
Line(kind, n, username, password) ==
    [kind |-> kind, n |-> n, username |-> username, password |-> password]

\* `Feature: Login DDT Tests\n`
FeatureHeader == <<Line("Feature:", 0, "", "")>>

\* a block that repeats the feature header
ScenarioBlockWithHeader(row, index) ==
    FeatureHeader \o
    <<Line("", 0, "", ""),
      Line("Scenario:", index + 1, TemplateString(Cell(row, "username")), ""),
      Line("Given", 0, TemplateString(Cell(row, "username")),
           TemplateString(Cell(row, "password"))),
      Line("Then", 0, "", "")>>

\* the text appended for the row at index (from 0): an empty line, the Scenario
\* line, the Given line, the Then line
ScenarioBlock(row, index) ==
    <<Line("", 0, "", ""),
      Line("Scenario:", index + 1, TemplateString(Cell(row, "username")), ""),
      Line("Given", 0, TemplateString(Cell(row, "username")), TemplateString(Cell(row, "password"))),
      Line("Then", 0, "", "")>>

\* data.forEach((row, index) => { featureContent += ... }), from the row at i on
RECURSIVE FeatureContent(_, _, _)
FeatureContent(content, data, i) ==
    IF i > Len(data) THEN content
    ELSE FeatureContent(content \o ScenarioBlock(data[i], i - 1), data, i + 1)

\* fs.appendFileSync in the place of fs.writeFileSync
appendFileSync(file, content) ==
    IF ~file.dir
    THEN [file |-> file, threw |-> TRUE, error |-> Thrown("ENOENT: no such file or directory")]
    ELSE [file |-> [dir |-> TRUE, exists |-> TRUE, content |-> file.content \o content],
          threw |-> FALSE, error |-> NoError]

\* fs.writeFileSync(outputPath, featureContent)
writeFileSync(file, content) ==
    IF ~file.dir
    THEN [file |-> file, threw |-> TRUE, error |-> Thrown("ENOENT: no such file or directory")]
    ELSE [file |-> [dir |-> TRUE, exists |-> TRUE, content |-> content],
          threw |-> FALSE, error |-> NoError]

\* generateLoginFeature: TestDataFactory.getLoginTestData() hands on the rows or the
\* error of DataLoader.loadLoginData; src is the login data, with whether it can be
\* read, and its rows
generateLoginFeature(src, file) ==
    IF ~src.available
    THEN [file |-> file, threw |-> TRUE, error |-> Thrown("login data cannot be read")]
    ELSE writeFileSync(file, FeatureContent(FeatureHeader, src.rows, 1))

\* the scenarios the runner reads from the lines of a feature file
RECURSIVE Pickles(_, _)
Pickles(content, i) ==
    IF i > Len(content) THEN <<>>
    ELSE IF content[i].kind = "Scenario:" /\ i < Len(content) /\ content[i + 1].kind = "Given"
    THEN <<[n |-> content[i].n, username |-> content[i + 1].username,
            password |-> content[i + 1].password]>> \o Pickles(content, i + 2)
    ELSE Pickles(content, i + 1)

\* the login data of a run: not readable, or up to MaxRows rows
Sources ==
    {[available |-> FALSE, rows |-> <<>>]}
    \cup {[available |-> TRUE, rows |-> rows] :
            rows \in SeqsUpTo({[username |-> Str("admin"), password |-> Str("password")],
                               [username |-> Str("user"), password |-> Str("wrongpassword")],
                               [username |-> Num("1")]}, MaxRows)}

\* what a run may find at the output path: no directory, no file, or the file that
\* an earlier generation left
OutputFiles ==
    {[dir |-> FALSE, exists |-> FALSE, content |-> <<>>], NoFile,
     [dir |-> TRUE, exists |-> TRUE,
      content |-> FeatureContent(FeatureHeader,
                      <<[username |-> Str("old"), password |-> Str("old")]>>, 1)]}

\* a run starts: the runner reads the feature files of paths:
\* src/features/**/*.feature, before it runs any hook
Discover ==
    /\ genPhase \in {"idle", "executed", "aborted"}
    /\ runs < MaxRuns
    /\ runs' = runs + 1
    /\ discovered' = IF outputFile.exists THEN Pickles(outputFile.content, 1) ELSE <<>>
    /\ genPhase' = "discovered"
    /\ UNCHANGED <<dataVars, runVars, env, source, outputFile, lastGen>>

\* the runner after the generating BeforeAll: a BeforeAll that throws ends the run
GenerateDone(g) ==
    /\ outputFile' = g.file
    /\ lastGen' = [n |-> lastGen.n + 1, source |-> source, before |-> outputFile,
                   threw |-> g.threw, error |-> g.error]
    /\ genPhase' = IF g.threw THEN "aborted" ELSE "ready"

\* BeforeAll of hooks.ts that calls generateLoginFeature
GeneratingBeforeAll ==
    /\ genPhase = "discovered"
    /\ GenerateDone(generateLoginFeature(source, outputFile))
    /\ UNCHANGED <<dataVars, runVars, env, source, discovered, runs>>

(***************************************************************************)
(* The step definitions the runner loads (require: src/steps/**/*.ts) and  *)
(* the phrases of the scenarios.  A phrase is the text of a step with each *)
(* quoted string replaced by {string}; the expression of a definition that *)
(* has {string} parameters only matches the phrases equal to it.           *)
(***************************************************************************)
\* the Given, When and Then calls of loginSteps.ts, in their order
LoginStepDefinitions ==
    <<"I login with data from test case ID {string}",
      "I click the login button",
      "the login result should match the expected outcome",
      "I am on the login page",
      "I enter username {string} and password {string}",
      "I click the login button",
      "I should see the todos page header",
      "I should see the page title {string}",
      "I should see an error message {string}",
      "I should remain on the login page",
      "I should see the username input field",
      "I should see the password input field",
      "I should see the login button",
      "I should see the {string} tab",
      "I click the {string} tab",
      "I should see the registration tab",
      "I enter password {string}",
      "the password field should mask the input",
      "the password should not be visible in plain text",
      "I am logged in as {string} with password {string}">>

\* the Given, When and Then calls of todoSteps.ts, in their order
TodoStepDefinitions ==
    <<"I am on the todos page",
      "I add a new todo with title {string}",
      "I add a new todo with the following details:",
      "I add a new todo with title {string} and priority {string}",
      "I should see the todo {string} in the list",
      "I should not see the todo {string} in the list",
      "the todo counter should show {string}",
      "the todo should have description {string}",
      "the todo should have priority {string}",
      "I have a todo {string}",
      "I mark the todo {string} as completed",
      "the todo {string} should be marked as completed",
      "I edit the todo {string} to have title {string}",
      "I delete the todo {string}",
      "I have the following todos:",
      "I filter todos by {string}",
      "I should see {int} todo(s) in the list",
      "I search for {string}",
      "I clear all completed todos",
      "I try to add a todo with empty title",
      "I should see an error message {string}",
      "the todo should not be added to the list",
      "I should see the todo {string} with priority {string}",
      "I have no todos",
      "I should see the empty state message",
      "the message should say {string}",
      "I refresh the page",
      "I should still see the todo {string} in the list",
      "I logout from the application",
      "I should be redirected to the login page",
      "I should not be able to access the todos page without logging in">>

\* import './loginSteps'; import './todoSteps'
StepDefinitions == LoginStepDefinitions \o TodoStepDefinitions

\* the phrases of the steps of login.feature
LoginFeaturePhrases ==
    {"I am on the login page",
     "I enter username {string} and password {string}",
     "I click the login button",
     "I should be redirected to the todos page",
     "I should see the page title {string}",
     "I should see an error message {string}",
     "I should remain on the login page",
     "I should see the username input field",
     "I should see the password input field",
     "I should see the login button",
     "I should see the {string} tab",
     "I click the {string} tab",
     "I should see the registration tab",
     "I enter password {string}",
     "the password field should mask the input",
     "the password should not be visible in plain text",
     "I login with data from test case ID {string}",
     "I click the login button using DDT",
     "the login result should match the expected outcome"}

\* the phrases of the steps of the generated scenarios
GeneratedPhrases(pickles) ==
    IF pickles = <<>> THEN {}
    ELSE {"I login with username {string} and password {string}",
          "Login should be successful"}

\* the registered definitions that match each phrase, by their places
Matching(phrases) ==
    [phrase \in phrases |-> {i \in DOMAIN StepDefinitions : StepDefinitions[i] = phrase}]

\* the runner executes the scenarios it discovered, those of login.feature among
\* them: it looks up the definitions of every step
Execute ==
    /\ genPhase = "ready"
    /\ genPhase' = "executed"
    /\ lastStep' = Step("execute", runs, world,
                        WorldOutcome(world, NoError, FALSE,
                            Matching(LoginFeaturePhrases \cup GeneratedPhrases(discovered))))
    /\ UNCHANGED <<dataVars, env, source, outputFile, discovered, lastGen, runs, pending,
                   config, phase, scenario, status, stepsRun, world, openBrowsers, setupLoad>>

\* between two runs the login data is edited
ChangeSource(src) ==
    /\ genPhase \in {"executed", "aborted"}
    /\ src # source
    /\ source' = src
    /\ genPhase' = "idle"
    /\ UNCHANGED <<dataVars, runVars, env, outputFile, discovered, lastGen, runs>>

GenSpecInit ==
    /\ fs = [p \in {EXCEL_FILE_PATH, HOOKS_EXCEL_FILE_PATH} |-> Missing]
    /\ cache = <<>>
    /\ lastCall = NoCall
    /\ config = [BROWSER |-> "chromium"]
    /\ RunInit
    /\ source \in Sources
    /\ outputFile \in OutputFiles
    /\ discovered = <<>>
    /\ genPhase = "idle"
    /\ lastGen = NoGen
    /\ runs = 0
    /\ env = <<>>

GenNext ==
    \/ Discover
    \/ GeneratingBeforeAll
    \/ Execute
    \/ \E src \in Sources : ChangeSource(src)

GenSpec == GenSpecInit /\ [][GenNext]_vars

(***************************************************************************)
(* The configuration (src/config/config.ts): getConfig over process.env.   *)
(* A variable of the environment is a string or is not set.                *)
(***************************************************************************)
\* process.env.X || fallback
OrElse(v, fallback) == IF Truthy(v) THEN v[2] ELSE fallback

\* parseInt(text, 10) of the texts the environment holds
ParseInt(text) ==
    CASE text \in {"0", "50", "100", "5000", "30000", "1920", "1080"} -> Num(text)
      [] text = "100ms" -> Num("100")
      [] OTHER -> Num("NaN")

\* getConfig: the base configuration, with the override of the profile
getConfigOf(e, name, base) ==
    IF name = "production"
    THEN [base EXCEPT !.BASE_URL = OrElse(e.PROD_BASE_URL, "https://prod.example.com"),
                      !.HEADLESS = TRUE, !.SCREENSHOT_ON_FAIL = FALSE]
    ELSE IF name = "staging"
    THEN [base EXCEPT !.BASE_URL = OrElse(e.STAGING_BASE_URL, "https://staging.example.com"),
                      !.HEADLESS = TRUE]
    ELSE IF name = "development"
    THEN [base EXCEPT !.BASE_URL = OrElse(e.DEV_BASE_URL, "http://localhost:5173"),
                      !.HEADLESS = FALSE]
    ELSE [base EXCEPT !.BASE_URL = OrElse(e.LOCAL_BASE_URL, "http://localhost:5173"),
                      !.HEADLESS = FALSE, !.SLOW_MO = Num("50")]

getConfig(e) ==
    getConfigOf(e, OrElse(e.NODE_ENV, "local"),
        [ENV |-> OrElse(e.NODE_ENV, "local"),
         BASE_URL |-> "",
         HEADLESS |-> ~(e.HEADLESS = Str("false")),
         SLOW_MO |-> ParseInt(OrElse(e.SLOW_MO, "0")),
         TIMEOUT |-> ParseInt(OrElse(e.TIMEOUT, "30000")),
         BROWSER |-> OrElse(e.BROWSER, "chromium"),
         VIEWPORT_WIDTH |-> ParseInt(OrElse(e.VIEWPORT_WIDTH, "1920")),
         VIEWPORT_HEIGHT |-> ParseInt(OrElse(e.VIEWPORT_HEIGHT, "1080")),
         ALLURE_RESULTS_DIR |-> OrElse(e.ALLURE_RESULTS_DIR, "allure-results"),
         SCREENSHOT_ON_FAIL |-> (e.SCREENSHOT_ON_FAIL = Str("true"))])

\* the environments of a process
Environments ==
    [NODE_ENV : {Undefined, Str(""), Str("local"), Str("development"), Str("staging"),
                 Str("production"), Str("qa")},
     HEADLESS : {Undefined, Str("false"), Str("true")},
     SLOW_MO : {Undefined, Str("100ms"), Str("fast")},
     TIMEOUT : {Undefined, Str("5000")},
     BROWSER : {Undefined, Str("firefox")},
     VIEWPORT_WIDTH : {Undefined}, VIEWPORT_HEIGHT : {Undefined},
     ALLURE_RESULTS_DIR : {Undefined},
     SCREENSHOT_ON_FAIL : {Undefined, Str("true")},
     PROD_BASE_URL : {Undefined}, STAGING_BASE_URL : {Undefined},
     DEV_BASE_URL : {Undefined},
     LOCAL_BASE_URL : {Undefined, Str("http://local.test")}]

\* export const config = getConfig()
GetConfig ==
    /\ "ENV" \notin DOMAIN config
    /\ config' = getConfig(env)
    /\ UNCHANGED <<dataVars, genVars, env, pending, phase, scenario, status, stepsRun, world,
                   openBrowsers, setupLoad, lastStep>>

ConfigSpecInit ==
    /\ fs = [p \in {EXCEL_FILE_PATH, HOOKS_EXCEL_FILE_PATH} |-> Missing]
    /\ cache = <<>>
    /\ lastCall = NoCall
    /\ config = [BROWSER |-> "chromium"]
    /\ RunInit
    /\ source = [available |-> FALSE, rows |-> <<>>]
    /\ outputFile = NoFile
    /\ discovered = <<>>
    /\ genPhase = "idle"
    /\ lastGen = NoGen
    /\ runs = 0
    /\ env \in Environments

ConfigSpec == ConfigSpecInit /\ [][GetConfig]_vars

(***************************************************************************)
(* The Logger (src/utils/logger.ts).  A text that is logged is the sequence *)
(* of its pieces: the characters of a value that is interpolated, and the  *)
(* literal parts of the template.  What a call emits is the sequence of    *)
(* the lines it hands to the console.                                      *)
(***************************************************************************)
LogLevel == [DEBUG |-> 0, INFO |-> 1, WARN |-> 2, ERROR |-> 3, SILENT |-> 4]

\* String.prototype.toUpperCase of the texts LOG_LEVEL holds
ToUpperCase(text) ==
    CASE text \in {"debug", "Debug"} -> "DEBUG"
      [] text = "info" -> "INFO"
      [] text \in {"warn", "Warn"} -> "WARN"
      [] text = "error" -> "ERROR"
      [] text = "silent" -> "SILENT"
      [] OTHER -> text

\* getLogLevel: process.env.LOG_LEVEL?.toUpperCase() through the switch
getLogLevel(e) ==
    IF e.LOG_LEVEL[1] = "string" /\ ToUpperCase(e.LOG_LEVEL[2]) \in DOMAIN LogLevel
    THEN LogLevel[ToUpperCase(e.LOG_LEVEL[2])]
    ELSE LogLevel.INFO

\* Logger.log with every level above the minimum only
logAbove(current, level, message) ==
    IF LogLevel[level] > current
    THEN <<[level |-> level, line |-> <<"[timestamp] [", level, "] ">> \o message]>>
    ELSE <<>>

\* Logger.log under the minimum level current: the lines it emits
log(current, level, message) ==
    IF LogLevel[level] >= current
    THEN <<[level |-> level, line |-> <<"[timestamp] [", level, "] ">> \o message]>>
    ELSE <<>>

\* BasePage.fillText: the line is logged before the field is filled
fillText(current, text, elementName) ==
    log(current, "INFO", <<"Filling text \"">> \o text \o <<"\" into: ", elementName>>)

\* When('I enter username {string} and password {string}'): the lines it emits are
\* its result; fault names the field whose fill throws.  In
\* password.replace(/./g, '*') the dot matches no line terminator.
enterCredentials(w, current, username, password, fault) ==
    IF fault = "username"
    THEN WorldOutcome(w, DriverError("fill"), FALSE,
                      fillText(current, username, "Username Input"))
    ELSE IF fault = "password"
    THEN WorldOutcome(w, DriverError("fill"), FALSE,
                      fillText(current, username, "Username Input")
                      \o fillText(current, password, "Password Input"))
    ELSE WorldOutcome(w, NoError, FALSE,
                      fillText(current, username, "Username Input")
                      \o fillText(current, password, "Password Input")
                      \o log(current, "INFO",
                             <<"Entered credentials: username=\"">> \o username
                             \o <<"\", password=\"">>
                             \o [i \in DOMAIN password |->
                                    IF password[i] = "\n" THEN "\n" ELSE "*"]
                             \o <<"\"">>))

\* Logger.debug, Logger.info, Logger.warn, Logger.error
LoggerCall(level, message) ==
    /\ lastStep' = Step("log", [level |-> level, message |-> message], world,
                        WorldOutcome(world, NoError, FALSE,
                                     log(getLogLevel(env), level, message)))
    /\ UNCHANGED <<dataVars, genVars, env, pending, config, phase, scenario, status,
                   stepsRun, world, openBrowsers, setupLoad>>

EnterCredentials(username, password, fault) ==
    /\ lastStep' = Step("enterCredentials",
                        [username |-> username, password |-> password], world,
                        enterCredentials(world, getLogLevel(env), username, password,
                                         fault))
    /\ UNCHANGED <<dataVars, genVars, env, pending, config, phase, scenario, status,
                   stepsRun, world, openBrowsers, setupLoad>>

LogSpecInit ==
    /\ fs = [p \in {EXCEL_FILE_PATH, HOOKS_EXCEL_FILE_PATH} |-> Missing]
    /\ cache = <<>>
    /\ lastCall = NoCall
    /\ config = [BROWSER |-> "chromium"]
    /\ lastStep = NoStep
    /\ phase = "steps"
    /\ scenario = 1
    /\ status = "UNKNOWN"
    /\ stepsRun = 0
    /\ world = [NoWorld EXCEPT !.browser = 1, !.context = TRUE, !.page = TRUE]
    /\ openBrowsers = {1}
    /\ setupLoad = "none"
    /\ pending = {}
    /\ source = [available |-> FALSE, rows |-> <<>>]
    /\ outputFile = NoFile
    /\ discovered = <<>>
    /\ genPhase = "idle"
    /\ lastGen = NoGen
    /\ runs = 0
    /\ env \in [LOG_LEVEL : {Undefined, Str(""), Str("debug"), Str("DEBUG"), Str("INFO"),
                             Str("Warn"), Str("ERROR"), Str("silent"), Str("SILENT"),
                             Str("verbose"), Str("4")}]

LogNext ==
    \/ \E level \in DOMAIN LogLevel \ {"SILENT"},
          message \in {<<"Browser initialized">>, <<"Scenario finished">>, <<>>} :
          LoggerCall(level, message)
    \/ \E username \in {<<"a", "d", "m", "i", "n">>, <<>>},
          password \in {<<"s", "3", "c">>, <<"S", "3", "c">>, <<"p", "w">>,
                        <<"a", "\n">>, <<>>},
          fault \in {"none", "username", "password"} :
          EnterCredentials(username, password, fault)

LogSpec == LogSpecInit /\ [][LogNext]_vars

(***************************************************************************)
(* Properties of the DataService, checked under Spec.                      *)
(***************************************************************************)
Range(f) == {f[i] : i \in DOMAIN f}

\* the rows the cache holds for a sheet, none when it holds no such sheet
CachedRows(c, sheetName) == IF sheetName \in DOMAIN c THEN c[sheetName] ELSE <<>>

MatchingRows(rows, key, value) == {i \in 1..Len(rows) : Cell(rows[i], key) = value}

Returned == lastCall.out.result

\* C1, in a state: a getSingleData call that returned has returned the row at the
\* least index, among the rows of the sheet whose key column equals the value, and
\* undefined when there is no such row.
C1_ReturnsFirstMatch ==
    (lastCall.op = "getSingleData" /\ ~lastCall.out.threw) =>
        LET rows == CachedRows(cache, lastCall.sheet)
            matches == MatchingRows(rows, lastCall.key, lastCall.value)
        IN  IF matches = {} THEN Returned = UndefinedResult
            ELSE \E i \in matches :
                    /\ \A j \in matches : i <= j
                    /\ Returned = RowResult(rows[i])

\* C1, in a step: a getSingleData call with the arguments of the getSingleData call
\* before it, against the cache that call left, returns what that call returned.
C1_RepeatedCallAgrees ==
    ( /\ lastCall.op = "getSingleData" /\ lastCall'.op = "getSingleData"
      /\ lastCall'.sheet = lastCall.sheet
      /\ lastCall'.key = lastCall.key
      /\ lastCall'.value = lastCall.value
      /\ ~lastCall.out.threw
      /\ lastCall'.before = lastCall.out.cache /\ cache' = cache )
    => (~lastCall'.out.threw /\ lastCall'.out.result = lastCall.out.result)

\* C1: getSingleData(sheet, key, value) returns the first row, in source order, of
\* the sheet whose key column equals value: of several rows with that key value the
\* earliest is returned, and a repeated call with the same arguments against the
\* unchanged cache returns the same row.
C1_FirstMatchingRow == [][C1_ReturnsFirstMatch' /\ C1_RepeatedCallAgrees]_vars

\* C1 witness: a lookup returned a row of a sheet that holds a later, different row
\* with the same key value.
C1_Witness ==
    /\ lastCall.op = "getSingleData" /\ ~lastCall.out.threw
    /\ Returned.kind = "row"
    /\ LET rows == CachedRows(cache, lastCall.sheet)
       IN  \E i, j \in MatchingRows(rows, lastCall.key, lastCall.value) :
              i < j /\ rows[i] # rows[j] /\ Returned.row = rows[i]

\* the file a loadData call read
LoadedFile == ReadPath(fs, ResolvePath(lastCall.path))

\* the record holds exactly the cells the physical row has, under the header's names
HoldsRow(rec, header, r) ==
    /\ DOMAIN rec \subseteq Range(header)
    /\ \A j \in 1..Len(header) :
          IF r[j] = Empty THEN header[j] \notin DOMAIN rec
          ELSE header[j] \in DOMAIN rec /\ rec[header[j]] = r[j]

NonBlank(rows) == {i \in 1..Len(rows) : \E j \in 1..Len(rows[i]) : rows[i][j] # Empty}

\* the k-th least member of a set of numbers
Nth(S, k) == CHOOSE i \in S : Cardinality({j \in S : j <= i}) = k

\* C2: after a successful loadData(path), for every sheet name of the loaded file
\* getData(name) returns exactly the row records of that sheet in source order: one
\* record for each physical row that holds a cell, in the order of the rows, nothing
\* added, dropped, duplicated or reordered.
C2_LoadThenGetData ==
    (lastCall.op = "loadData" /\ ~lastCall.out.threw) =>
        \A name \in Range(LoadedFile.wb.SheetNames) :
            LET got == getData(cache, fs, name)
                ws == LoadedFile.wb.Sheets[name]
                kept == NonBlank(ws.rows)
            IN  /\ ~got.threw
                /\ got.result.kind = "array"
                /\ Len(got.result.rows) = Cardinality(kept)
                /\ \A k \in 1..Len(got.result.rows) :
                      HoldsRow(got.result.rows[k], ws.header, ws.rows[Nth(kept, k)])

\* C2 witness: a load over a cache that already held the sheet has succeeded, for a
\* sheet with a blank row before a row that holds cells.
C2_Witness ==
    /\ lastCall.op = "loadData" /\ ~lastCall.out.threw
    /\ "Login" \in DOMAIN lastCall.before
    /\ "Login" \in Range(LoadedFile.wb.SheetNames)
    /\ LET rows == LoadedFile.wb.Sheets["Login"].rows
       IN  Len(rows) = 2 /\ rows[1] = BlankRow /\ rows[2] # BlankRow
    /\ Len(cache["Login"]) = 1

\* C3 as claimed: a reload replaces the cache, so that after a successful loadData
\* the cache holds exactly the sheets of the file just loaded, and getData returns
\* nothing for a sheet that only an earlier file had.
C3_ReloadReplaces ==
    (lastCall.op = "loadData" /\ ~lastCall.out.threw) =>
        /\ DOMAIN cache = Range(LoadedFile.wb.SheetNames)
        /\ \A name \in DOMAIN lastCall.before \ Range(LoadedFile.wb.SheetNames) :
              getData(cache, fs, name).result = ArrayResult(<<>>)

\* C4 as claimed: a loadData call that fails leaves the cache exactly as it was.
C4_FailedLoadKeepsCache ==
    (lastCall.op = "loadData" /\ lastCall.out.threw) => cache = lastCall.before

UnloadableKinds == {"missing", "unreadable", "garbage"}

Warned(logs) == \E i \in 1..Len(logs) : logs[i].level \in {"WARN", "ERROR"}

\* C6 as claimed: getSingleData never throws; for a key value no row has it returns
\* undefined, and for a sheet the cache does not hold it returns undefined after a
\* logged warning, in every state of the cache.
C6_GetSingleDataNeverThrows ==
    lastCall.op = "getSingleData" =>
        /\ ~lastCall.out.threw
        /\ MatchingRows(CachedRows(cache, lastCall.sheet), lastCall.key, lastCall.value) = {}
              => Returned = UndefinedResult
        /\ lastCall.sheet \notin DOMAIN cache => Warned(lastCall.out.logs)

\* C7 as claimed: getData of a sheet name the cache does not hold returns an empty
\* array, raises nothing, logs a warning and leaves the cache as it was.
C7_AbsentSheetIsEmpty ==
    (lastCall.op = "getData" /\ lastCall.sheet \notin DOMAIN lastCall.before) =>
        /\ ~lastCall.out.threw
        /\ Returned = ArrayResult(<<>>)
        /\ Warned(lastCall.out.logs)
        /\ cache = lastCall.before

(***************************************************************************)
(* Properties of a run of the hooks and steps, checked under RunSpec.      *)
(***************************************************************************)
\* C8 as claimed: the cache is written once, by the load of BeforeAll, before any
\* scenario starts; no step after BeforeAll changes it.
C8_CacheWrittenOnlyInSetup == [][phase # "boot" => cache' = cache]_vars

\* C9 as claimed: when the load of BeforeAll fails the run is aborted, so that no
\* scenario starts.
C9_FailedSetupAbortsRun == setupLoad = "failed" => scenario = 0

\* C10 as claimed: once the After hook of a scenario has run, whatever the outcome
\* of the scenario and of the screenshot, closeBrowser has closed the browser that
\* Before launched, exactly once, and no browser is open when the next scenario
\* starts.
C10_SessionClosedAfterScenario ==
    (phase \in {"ready", "done"} /\ scenario > 0) =>
        /\ world.browser # 0 => world.closes = 1
        /\ openBrowsers = {}

\* the stored expected result, as text, when it is a string
ExpectedText(w) ==
    IF w.expectedResult[1] = "string" THEN Text(w.expectedResult[2]) ELSE <<>>

\* C14 as claimed: the outcome step selects its branch from the stored
\* expected_result alone: a value that begins 'Success' takes the branch of
\* redirect and landmark, a value of the form 'Error: <msg>' takes the branch that
\* passes only if the error message contains <msg> and the page is the login
\* screen, and every other value that is set makes the step fail with the error of
\* an unrecognized format.
C14_BranchByExpectedResult ==
    (lastStep.op = "outcome" /\ Truthy(lastStep.before.expectedResult)) =>
        IF StartsWith(ExpectedText(lastStep.before), Text("Success"))
        THEN lastStep.result = "success"
        ELSE IF StartsWith(ExpectedText(lastStep.before), Text("Error: "))
        THEN /\ lastStep.result = "error"
             /\ ~lastStep.threw =>
                   /\ lastStep.arg.errorVisible
                   /\ Contains(lastStep.arg.errorText,
                               SubSeq(ExpectedText(lastStep.before), 3,
                                      Len(ExpectedText(lastStep.before))))
                   /\ lastStep.arg.url = LoginUrl
        ELSE lastStep.threw /\ lastStep.error = UnknownFormat /\ lastStep.result = "none"

\* C15 as claimed: for an expected result that begins 'Success' the outcome step
\* passes only if the page is the post-login screen and its landmark shows the
\* expected text.
C15_SuccessNeedsRedirectAndLandmark ==
    ( /\ lastStep.op = "outcome"
      /\ StartsWith(ExpectedText(lastStep.before), Text("Success"))
      /\ ~lastStep.threw )
    => (lastStep.arg.url = TodosUrl /\ lastStep.arg.header = "My Tasks")

\* C16: when the test case ID given to the data-driven login step has no row in
\* the Login sheet, the step fails, with the error 'Test data not found' whenever
\* the lookup itself returned, it enters no credentials and it leaves the expected
\* result of the scenario's testData as it was.
C16_LookupMissFails ==
    ( /\ lastStep.op = "dataLogin"
      /\ MatchingRows(CachedRows(cache, "Login"), "test_case_id", lastStep.arg) = {} )
    => /\ lastStep.threw
       /\ status = "FAILED"
       /\ ~lastCall.out.threw => lastStep.error = TestDataNotFound
       /\ lastStep.result = "none"
       /\ world.expectedResult = lastStep.before.expectedResult

\* C16 witness: in a scenario that had stored the expected result of a row, the
\* step has failed for an id that the loaded Login sheet does not hold.
C16_Witness ==
    /\ lastStep.op = "dataLogin" /\ lastStep.arg = Str("TC-LOGIN-404")
    /\ "Login" \in DOMAIN cache /\ Len(cache["Login"]) > 0
    /\ lastStep.error = TestDataNotFound
    /\ lastStep.before.expectedResult = Str("Success")
    /\ world.expectedResult = Str("Success")

(***************************************************************************)
(* Properties of the CustomWorld, checked under WorldSpec.                 *)
(***************************************************************************)
\* C11: initBrowser fails when config.BROWSER is not one of chromium, firefox,
\* webkit, with the error 'Unsupported browser type' for every name that is not a
\* property of Object.prototype; no browser is launched and the browser, context
\* and page of the world stay unset.
C11_UnsupportedBrowserFails ==
    (lastStep.op = "initBrowser" /\ config.BROWSER \notin SupportedBrowsers) =>
        /\ lastStep.threw
        /\ config.BROWSER \notin ObjectPrototypeKeys => lastStep.error = UnsupportedBrowser
        /\ openBrowsers = {}
        /\ world.browser = 0 /\ ~world.context /\ ~world.page

\* C11 witness: initBrowser has failed for the browser name edge.
C11_Witness ==
    /\ lastStep.op = "initBrowser" /\ config.BROWSER = "edge"
    /\ lastStep.threw /\ lastStep.error = UnsupportedBrowser
    /\ world = NoWorld

\* C12 as claimed: closeBrowser called when no session is open raises no error and
\* issues no close to the driver, whether initBrowser never ran, failed before the
\* launch, or closeBrowser was already called for the session.
C12_CloseWithoutSessionIsNoOp ==
    (lastStep.op = "closeBrowser" /\ ~lastStep.sessionOpen) =>
        /\ ~lastStep.threw
        /\ world.closes = lastStep.before.closes

\* C13 as claimed: a screenshot asked for when the world has no page returns an
\* absent result and raises no error, by takeScreenshot and by the capture of the
\* After hook alike.
C13_NoPageNoError ==
    (lastStep.op \in {"takeScreenshot", "capture"} /\ ~lastStep.before.page) =>
        /\ ~lastStep.threw
        /\ lastStep.result = "undefined"

(***************************************************************************)
(* Properties of the scenario generator, checked under GenSpec.            *)
(***************************************************************************)
Generated == lastGen.n > 0 /\ ~lastGen.threw

LinesOf(content, kind) == {i \in 1..Len(content) : content[i].kind = kind}

\* C17: after generateLoginFeature has returned, the output file is made of exactly
\* one feature header, its first line, followed by exactly one scenario block for
\* each login data row, in row order, the block of a row carrying the username and
\* the password of that row; nothing of what the file held before remains.
C17_HeaderThenBlockPerRow ==
    Generated =>
        /\ outputFile.exists
        /\ Len(outputFile.content) = 1 + 4 * Len(lastGen.source.rows)
        /\ LinesOf(outputFile.content, "Feature:") = {1}
        /\ Cardinality(LinesOf(outputFile.content, "Scenario:")) = Len(lastGen.source.rows)
        /\ \A k \in 1..Len(lastGen.source.rows) :
              /\ outputFile.content[4 * k - 1].kind = "Scenario:"
              /\ outputFile.content[4 * k - 1].n = k
              /\ outputFile.content[4 * k].kind = "Given"
              /\ outputFile.content[4 * k].username
                    = TemplateString(Cell(lastGen.source.rows[k], "username"))
              /\ outputFile.content[4 * k].password
                    = TemplateString(Cell(lastGen.source.rows[k], "password"))

\* C17 witness: a generation over two different rows has replaced the file that an
\* earlier generation had left.
C17_Witness ==
    /\ Generated
    /\ lastGen.before.exists /\ Len(lastGen.before.content) > 1
    /\ Len(lastGen.source.rows) = 2
    /\ lastGen.source.rows[1] # lastGen.source.rows[2]
    /\ lastGen.before # outputFile

\* C18: a generateLoginFeature call that follows a generateLoginFeature call over
\* the same login data leaves the output file with the content the first call left.
C18_RegenerationIsIdempotent ==
    [][( /\ lastGen'.n = lastGen.n + 1
         /\ Generated /\ ~lastGen'.threw
         /\ lastGen'.source = lastGen.source )
       => outputFile' = outputFile]_vars

\* C18 witness: a second generation over unchanged rows has found the file of the
\* first and left the same content.
C18_Witness ==
    /\ lastGen.n >= 2 /\ ~lastGen.threw
    /\ Len(lastGen.source.rows) > 0
    /\ lastGen.before.exists /\ lastGen.before = outputFile
    /\ runs >= 2

\* C19 as claimed: the generated scenarios that the runner executes in a run are
\* those of the login data of that run: the file is rewritten before the runner
\* discovers the scenarios.
C19_ExecutesScenariosOfThisRun ==
    genPhase = "executed" =>
        discovered = Pickles(FeatureContent(FeatureHeader, source.rows, 1), 1)

(***************************************************************************)
(* Properties of the configuration, checked under ConfigSpec.              *)
(***************************************************************************)
Profiles == {"local", "development", "staging", "production"}

\* C20 as claimed: getConfig returns a configuration for every environment, and
\* for a NODE_ENV that names none of local, development, staging, production the
\* configuration is the one it returns when NODE_ENV is local, setting by setting.
C20_UnknownProfileIsLocal ==
    ("ENV" \in DOMAIN config /\ OrElse(env.NODE_ENV, "local") \notin Profiles) =>
        config = getConfig([env EXCEPT !.NODE_ENV = Str("local")])

\* the variable of the environment that holds the base URL of a profile
BaseUrlVariable(e) ==
    CASE OrElse(e.NODE_ENV, "local") = "production" -> e.PROD_BASE_URL
      [] OrElse(e.NODE_ENV, "local") = "staging" -> e.STAGING_BASE_URL
      [] OrElse(e.NODE_ENV, "local") = "development" -> e.DEV_BASE_URL
      [] OTHER -> e.LOCAL_BASE_URL

\* C21 as claimed: in every profile, a setting whose environment variable is set
\* resolves to the value of that variable (HEADLESS, SLOW_MO, TIMEOUT, BROWSER,
\* the base URL of the profile, SCREENSHOT_ON_FAIL), and to the default of the
\* profile only when the variable is not set.
C21_EnvironmentOverridesProfile ==
    "ENV" \in DOMAIN config =>
        /\ env.HEADLESS # Undefined => config.HEADLESS = (env.HEADLESS = Str("true"))
        /\ env.SLOW_MO # Undefined => config.SLOW_MO = ParseInt(env.SLOW_MO[2])
        /\ env.TIMEOUT # Undefined => config.TIMEOUT = ParseInt(env.TIMEOUT[2])
        /\ env.BROWSER # Undefined => config.BROWSER = env.BROWSER[2]
        /\ BaseUrlVariable(env) # Undefined => config.BASE_URL = BaseUrlVariable(env)[2]
        /\ env.SCREENSHOT_ON_FAIL # Undefined =>
               config.SCREENSHOT_ON_FAIL = (env.SCREENSHOT_ON_FAIL = Str("true"))

\* no variable of the environment is set
NothingSet(e) == \A name \in DOMAIN e : e[name] = Undefined

\* C22 as claimed: with no environment variable set, the resolved configuration has
\* the defaults the README documents: ENV local, BROWSER chromium, HEADLESS true,
\* BASE_URL http://localhost:5173, TIMEOUT 30000, ALLURE_RESULTS_DIR allure-results.
C22_ReadmeDefaults ==
    ("ENV" \in DOMAIN config /\ NothingSet(env)) =>
        /\ config.ENV = "local"
        /\ config.BROWSER = "chromium"
        /\ config.HEADLESS = TRUE
        /\ config.BASE_URL = "http://localhost:5173"
        /\ config.TIMEOUT = Num("30000")
        /\ config.ALLURE_RESULTS_DIR = "allure-results"

\* the levels in their order, least first
LevelOrder == <<"DEBUG", "INFO", "WARN", "ERROR", "SILENT">>
Rank(level) == CHOOSE i \in DOMAIN LevelOrder : LevelOrder[i] = level

\* the minimum level a value of LOG_LEVEL configures: the level it names, in any
\* letter case, and INFO when it is unset or names no level
Minimum(setting) ==
    IF \E i \in DOMAIN LevelOrder : setting = Str(LevelOrder[i])
    THEN setting[2]
    ELSE IF setting \in {Str("debug"), Str("Debug")} THEN "DEBUG"
    ELSE IF setting \in {Str("warn"), Str("Warn")} THEN "WARN"
    ELSE IF setting = Str("error") THEN "ERROR"
    ELSE IF setting = Str("silent") THEN "SILENT"
    ELSE "INFO"

\* C23: a log call at level L emits a line if and only if L is at or above the
\* configured minimum in the order DEBUG < INFO < WARN < ERROR < SILENT; with the
\* minimum SILENT no call emits, and an unset or unrecognized LOG_LEVEL is INFO.
C23_LoggingGatedByMinimum ==
    lastStep.op = "log" =>
        /\ (lastStep.result # <<>>) <=>
               (Rank(lastStep.arg.level) >= Rank(Minimum(env.LOG_LEVEL)))
        /\ Len(lastStep.result) <= 1
        /\ lastStep.result # <<>> => lastStep.result[1].level = lastStep.arg.level
        /\ Minimum(env.LOG_LEVEL) = "SILENT" => lastStep.result = <<>>

\* C23 witness: under a LOG_LEVEL that names no level, a WARN call has emitted
\* its line.
C23_Witness ==
    /\ lastStep.op = "log" /\ env.LOG_LEVEL = Str("verbose")
    /\ lastStep.arg.level = "WARN" /\ lastStep.result # <<>>

\* C28 as claimed: no line a step emits while it enters credentials holds the
\* password in plain text; the password shows in masked form only.
C28_PasswordNeverInPlainText ==
    (lastStep.op = "enterCredentials" /\ lastStep.arg.password # <<>>) =>
        \A i \in DOMAIN lastStep.result :
            ~Contains(lastStep.result[i].line, lastStep.arg.password)

\* C24 as claimed: when the After hook of a scenario has run, the scenario's world
\* holds an attached screenshot if the scenario ended FAILED, and holds none if it
\* did not fail.
C24_FailedScenarioHasScreenshot ==
    (lastStep.op = "After" /\ phase = "ready") =>
        IF status = "FAILED" THEN world.screenshot = "attached"
        ELSE world.screenshot = "none"

\* C30 as claimed: the After hook captures a screenshot of a failed scenario only
\* when config.SCREENSHOT_ON_FAIL is true; when it is false the hook captures none.
C30_ScreenshotGatedByConfig ==
    (lastStep.op = "After" /\ phase = "ready" /\ ~config.SCREENSHOT_ON_FAIL) =>
        world.screenshot = "none"

\* C25 as claimed: when a step of a scenario has reported its result, nothing the
\* step started is still running: no assertion or wait is pending while the next
\* step or the After hook is due.
C25_NothingPendingAfterStep ==
    (lastStep.op \in {"dataLogin", "outcome", "browser"} /\ phase \in {"steps", "after"}) =>
        pending = {}

\* the call has run the implicit loadData of getData
ImplicitLoad(call) ==
    /\ call.op \in {"getData", "getSingleData"}
    /\ call.out.logs # <<>>
    /\ call.out.logs[1] = Log("WARN", "Data cache is empty. Attempting to load data now.")

\* a load was attempted and has completed, by returning or by throwing
LoadAttempted(call) == call.op = "loadData" \/ ImplicitLoad(call)

\* C26 as claimed, in a step: after a call that attempted a load, a getData call
\* runs no implicit load; neither does a getData call on a populated cache.
C26_NoLoadAfterLoad ==
    (lastCall'.op = "getData" /\ lastCall' # lastCall) =>
        /\ LoadAttempted(lastCall) => ~ImplicitLoad(lastCall')
        /\ Cardinality(ObjectKeys(lastCall'.before)) > 0 => ~ImplicitLoad(lastCall')

\* C26 as claimed: getData loads implicitly only while no load has been attempted.
C26_LoadsOnlyBeforeFirstLoad == [][C26_NoLoadAfterLoad]_vars

\* C26, amended: a getData call, alone or under getSingleData, runs the implicit
\* loadData from the default path exactly when the cache holds no sheet at the
\* call, whatever loads were attempted before; on a cache that holds a sheet it
\* reads no file.
C26_LoadsWhenCacheHoldsNoSheet ==
    lastCall.op \in {"getData", "getSingleData"} =>
        /\ ImplicitLoad(lastCall) <=> (Cardinality(ObjectKeys(lastCall.before)) = 0)
        /\ ~ImplicitLoad(lastCall) => lastCall.out.cache = lastCall.before

\* C26 witness: a getData call on an empty cache has loaded the default file and
\* returned the rows of a sheet it holds.
C26_Witness ==
    /\ lastCall.op = "getData" /\ ImplicitLoad(lastCall)
    /\ lastCall.before = <<>> /\ ~lastCall.out.threw
    /\ lastCall.sheet \in DOMAIN cache /\ Returned = ArrayResult(cache[lastCall.sheet])

\* the rows whose key cell, in its string form, is the lookup string
StringMatches(rows, key, value) ==
    {i \in 1..Len(rows) : Cell(rows[i], key) # Undefined /\ Cell(rows[i], key)[2] = value[2]}

\* C27 as claimed: getSingleData with a lookup string returns the first row whose
\* key cell has that string as its string form, letter case included (a numeric
\* cell 1 is found by '1'), and undefined when no row has.
C27_MatchesByStringEquality ==
    (lastCall.op = "getSingleData" /\ ~lastCall.out.threw /\ lastCall.value[1] = "string") =>
        LET rows == CachedRows(cache, lastCall.sheet)
            matches == StringMatches(rows, lastCall.key, lastCall.value)
        IN  IF matches = {} THEN Returned = UndefinedResult
            ELSE Returned = RowResult(rows[CHOOSE i \in matches : \A j \in matches : i <= j])

\* C29 as claimed: when the runner has executed the scenarios of a run, every
\* phrase of login.feature and of the generated scenarios is matched by exactly one
\* registered step definition: none is undefined, none is ambiguous.
C29_EveryPhraseHasOneDefinition ==
    lastStep.op = "execute" =>
        \A phrase \in DOMAIN lastStep.result : Cardinality(lastStep.result[phrase]) = 1

====
